---- MODULE Spec2Model ----
(***************************************************************************)
(* The section-processing workflow of src/workflow_graph.py: the graph     *)
(* built by build_graph, its nodes (planning, research, analysis, writing, *)
(* review, revision, compile, error handling) and its routers, acting on   *)
(* the single ResearchState of src/shared_state.py.                        *)
(*                                                                         *)
(* A node mutates the state object it is given and returns a partial       *)
(* update that is merged into it; both are modelled as assignments to the  *)
(* one shared state.  Texts are modelled by tokens; what the code asks of  *)
(* a text (truthiness, substring tests) is tabulated per token.            *)
(***************************************************************************)
EXTENDS Integers, Sequences, FiniteSets, TLC

----------------------------------------------------------------------------
(* Bounds of the exploration *)

RevCapBound == 1        \* largest max_revision_cycles_per_section explored
RecCapBound == 1        \* largest max_recursion_depth_per_section explored
IterCapBound == 2       \* largest max_main_loop_iterations explored
MaxFaults == 1          \* backend failures (raised, empty or undecodable
                        \* results) injected into one run of Spec

\* longest per-section stage history kept (longer histories are cut off)
MaxTrace == 2 * (RecCapBound + 1) + 2 * (RevCapBound + MaxFaults + 1) + 2

----------------------------------------------------------------------------
(* Texts *)

NONE == "None"                      \* Python None of an Optional[str]

Truthy(s) == s \notin {NONE, ""}    \* bool(s) of an Optional[str]

\* str(e) of an exception raised by a backend call
ExcTexts == {"timeout", "review node busy"}

\* the same for the calls explored with one exception text only
PlainExcTexts == {"timeout"}

\* the router tags (lower-cased test of decide_to_revise_or_continue) that a
\* free text contains
TextLowerTags(txt) == IF txt = "review node busy" THEN {"review node"} ELSE {}

\* the router tags (case-sensitive tests) that a free text contains
TextTags(txt) == {}

NoError == [kind |-> "none", txt |-> "-"]

\* Err recording nothing
ErrUnset(kind, txt) == NoError

\* Err clearing the message when the analysis call raises
ErrClearedByAnalysis(kind, txt) ==
    IF kind = "analysis" THEN NoError ELSE [kind |-> kind, txt |-> txt]

\* the message of one kind (its fixed part) about the text of an exception
Err(kind, txt) == [kind |-> kind, txt |-> txt]

IsSet(msg) == msg.kind # "none"     \* bool(state.error_message)

\* tags contained, case-sensitively, in the fixed part of a message
KindTags(kind) ==
    IF kind = "analysis_json" THEN {"analysis_node"} ELSE {}

\* tags contained in the lower-cased fixed part of a message
KindLowerTags(kind) ==
    CASE kind \in {"review", "review_invalid"} -> {"review node"}
      [] kind \in {"revision", "revision_invalid"} -> {"revision node"}
      [] OTHER -> {}

\* tag in state.error_message
Contains(msg, tag) == tag \in (KindTags(msg.kind) \cup TextTags(msg.txt))

\* tag in state.error_message.lower()
LowerContains(msg, tag) ==
    tag \in (KindLowerTags(msg.kind) \cup TextLowerTags(msg.txt))

\* "approved as is" in feedback.lower()
Approved(feedback) == feedback = "Looks good. Approved As Is."

----------------------------------------------------------------------------
(* Titles and outlines *)

Titles == {"Introduction", "introduction", "Background", "Methods",
           "Conclusion", "References"}

Lower(t) ==
    CASE t \in {"Introduction", "introduction"} -> "introduction"
      [] t = "Background" -> "background"
      [] t = "Methods" -> "methods"
      [] t = "Conclusion" -> "conclusion"
      [] t = "References" -> "references"

\* title.lower() not in ["introduction", "conclusion", "references"]
IsContent(t) == Lower(t) \notin {"introduction", "conclusion", "references"}

\* outlines that parse_planner_output returns
PlannedOutlines ==
    { <<"Introduction", "Background", "Methods", "Conclusion", "References">>,
      <<"Introduction", "Background", "Conclusion", "References">>,
      <<"Background", "Introduction", "Conclusion", "References">>,
      <<"introduction", "Methods", "Conclusion", "References">>,
      <<"Introduction", "Conclusion", "References">> }

Range(f) == {f[i] : i \in DOMAIN f}

\* The planner's text, line by line.  A line is a header ("Section 2: Methods",
\* its title already stripped), a plain line of more than three characters
\* ("Methods"), a question line ("- Question 2.1: ...") or a line of at most
\* three characters ("2.").
MaxLines == 2           \* most lines of a planner text explored

PlannerLines ==
    [form : {"header", "plain"}, title : Titles]
    \cup [form : {"question", "short"}, title : {"-"}]

PlannerTexts == UNION { [1..n -> PlannerLines] : n \in 1..MaxLines }

TitlesOf(lines) == [i \in 1..Len(lines) |-> lines[i].title]

HasLower(sections, lowered) ==
    \E i \in 1..Len(sections) : Lower(sections[i]) = lowered

\* the list kept as it is
Duplicated(sections) == sections

\* [x for x in sections if not (x in seen or seen.add(x))]
RECURSIVE Deduplicated(_)
Deduplicated(sections) ==
    IF sections = <<>> THEN <<>>
    ELSE LET front == Deduplicated(SubSeq(sections, 1, Len(sections) - 1))
             x == sections[Len(sections)]
         IN IF x \in Range(front) THEN front ELSE Append(front, x)

AppendedIfMissing(sections, title) ==
    IF HasLower(sections, Lower(title)) THEN sections
    ELSE Append(sections, title)

parse_planner_output(planner_output) ==
    LET IsHeader(line) == line.form = "header"
        IsPlain(line) == line.form = "plain"
        matches == TitlesOf(SelectSeq(planner_output, IsHeader))
        found == IF matches # <<>> THEN matches
                 ELSE TitlesOf(SelectSeq(planner_output, IsPlain))
        led == IF HasLower(found, "introduction") THEN found
               ELSE <<"Introduction">> \o found
    IN AppendedIfMissing(
           AppendedIfMissing(Deduplicated(led), "Conclusion"), "References")

----------------------------------------------------------------------------
(* ResearchState and SectionData *)

VARIABLES
    pc,                                 \* the graph node (or router) that runs next
    initial_outline,                    \* <<>> stands for None
    sections_data,                      \* title -> SectionData
    current_section_title,              \* NONE or a title
    all_collected_urls,
    all_search_queries,
    main_loop_iterations,
    final_report_md,                    \* <<>> (None) or the report's sections
    references,
    max_revision_cycles_per_section,
    max_main_loop_iterations,
    max_recursion_depth_per_section,
    error_message,
    research_output,                    \* what the latest kickoff() of the
                                        \* research crew returned
    research_task,                      \* the arguments of the latest
                                        \* conduct_research_task call
    trace,                              \* title -> the stages run for it, in order
    faults_left                         \* backend failures still to come
                                        \* (Unlimited: any number)

vars == <<pc, initial_outline, sections_data, current_section_title,
          all_collected_urls, all_search_queries, main_loop_iterations,
          final_report_md, references, max_revision_cycles_per_section,
          max_main_loop_iterations, max_recursion_depth_per_section,
          error_message, research_output, research_task, trace, faults_left>>

config == <<max_revision_cycles_per_section, max_main_loop_iterations,
            max_recursion_depth_per_section>>

research_sets == <<all_collected_urls, all_search_queries>>

Unlimited == -1

\* the backend gives the result out: a failure uses up one of the failures left
Backend(out, nominal) ==
    /\ out.t = nominal \/ faults_left # 0
    /\ faults_left' = IF out.t = nominal \/ faults_left = Unlimited
                          THEN faults_left ELSE faults_left - 1

SectionData(title) ==
    [ title |-> title,
      raw_data |-> <<>>,
      summary |-> NONE,
      draft_content |-> NONE,
      review_feedback |-> NONE,
      revision_attempts |-> 0,
      follow_up_questions |-> <<>>,
      recursion_depth |-> 0 ]

\* no research task has been made yet
NoTask ==
    [section_title |-> NONE, research_questions |-> <<>>,
     existing_urls |-> {}, existing_queries |-> {}]

\* no research result yet
NoOutput ==
    [t |-> "none", txt |-> "-", shape |-> "none",
     has_results |-> FALSE, results |-> <<>>,
     has_queries |-> FALSE, queries |-> <<>>]

InitState ==
    /\ pc = "planner"
    /\ research_output = NoOutput
    /\ research_task = NoTask
    /\ initial_outline = <<>>
    /\ sections_data = [t \in {} |-> SectionData(t)]
    /\ current_section_title = NONE
    /\ all_collected_urls = {}
    /\ all_search_queries = {}
    /\ main_loop_iterations = 0
    /\ final_report_md = <<>>
    /\ references = <<>>
    /\ error_message = NoError

Init ==
    /\ InitState
    /\ trace = [t \in Titles |-> <<>>]
    /\ max_revision_cycles_per_section \in 0..RevCapBound
    /\ max_main_loop_iterations \in 0..IterCapBound
    /\ max_recursion_depth_per_section \in 0..RecCapBound
    /\ faults_left = MaxFaults

\* not section_title or section_title not in state.sections_data
InvalidSection ==
    \/ current_section_title = NONE
    \/ current_section_title \notin DOMAIN sections_data

\* the record of the current section
Cur == sections_data[current_section_title]

\* the assignment made to every record
SetAll(upd) ==
    sections_data' = [t \in DOMAIN sections_data |-> upd]

\* assignment to fields of state.sections_data[section_title]
SetCur(upd) ==
    sections_data' = [sections_data EXCEPT ![current_section_title] = upd]

\* the stage history of the current section, extended by one stage and what
\* the backend did in it ("none": the stage made no backend call)
Logged(stage, reply) ==
    [trace EXCEPT ![current_section_title] =
        IF Len(@) < MaxTrace
            THEN Append(@, [stage |-> stage, reply |-> reply]) ELSE @]

\* the replies that are backend failures: an exception, an empty or blank
\* result, a result that is not a string, a text that is not JSON or not the
\* JSON of a list or dict
FailureReplies == {"raise", "blank", "space", "nonstr", "text", "scalar"}

----------------------------------------------------------------------------
(* planner *)

\* what crew.kickoff() of the planning crew does, with the outline parsed from
\* a text result
PlannerOutputs ==
    [t : {"outline"}, txt : {"-"}, parsed_outline : PlannedOutlines]
    \cup [t : {"raise"}, txt : PlainExcTexts, parsed_outline : {<<>>}]

\* the outlines of all planner texts of at most MaxLines lines
ParsedOutputs ==
    [t : {"outline"}, txt : {"-"},
     parsed_outline : {parse_planner_output(text) : text \in PlannerTexts}]
    \cup [t : {"raise"}, txt : PlainExcTexts, parsed_outline : {<<>>}]

PlanningStep(outputs) ==
    /\ pc = "planner"
    /\ pc' = "planner_routes"
    /\ \E out \in outputs :
         /\ Backend(out, "outline")
         /\ IF out.t = "outline" THEN
                /\ initial_outline' = out.parsed_outline
                /\ sections_data' =
                       [t \in Range(out.parsed_outline) |-> SectionData(t)]
                /\ UNCHANGED error_message
            ELSE
                /\ error_message' = Err("planning", out.txt)
                /\ UNCHANGED <<initial_outline, sections_data>>
    /\ UNCHANGED <<research_output, research_task, current_section_title, research_sets, main_loop_iterations,
                   final_report_md, references, config, trace>>

planning_node == PlanningStep(PlannerOutputs)

\* the planning step on the outline of any planner text
planning_node_parsed == PlanningStep(ParsedOutputs)

\* the graph node named by a router's answer
Target(answer) ==
    CASE answer \in {"process_next_section", "researcher"} -> "researcher"
      [] answer \in {"compile_report", "compiler"} -> "compiler"
      [] answer = "handle_error" -> "error_handler"
      [] answer = "writer" -> "writer"
      [] answer = "revise_section" -> "reviser"
      [] answer = "continue_to_next_main_task" -> "research_loop_controller"

\* first conditional edge of "planner"
planner_edge_1 ==
    /\ pc = "planner_routes"
    /\ pc' = Target(IF initial_outline # <<>> /\ ~IsSet(error_message)
                    THEN "process_next_section" ELSE "handle_error")
    /\ UNCHANGED <<research_output, research_task, initial_outline, sections_data, current_section_title,
                   research_sets, main_loop_iterations, final_report_md,
                   references, config, error_message, trace, faults_left>>

\* second conditional edge of "planner"
planner_edge_2 ==
    /\ pc = "planner_routes"
    /\ pc' = Target(IF /\ initial_outline # <<>>
                       /\ ~IsSet(error_message)
                       /\ initial_outline[1] \notin
                              {"Introduction", "Conclusion", "References"}
                    THEN "researcher"
                    ELSE IF initial_outline # <<>> THEN "compiler"
                                                   ELSE "handle_error")
    /\ UNCHANGED <<research_output, research_task, initial_outline, sections_data, current_section_title,
                   research_sets, main_loop_iterations, final_report_md,
                   references, config, error_message, trace, faults_left>>

\* the content titles of an outline, in outline order
ContentIndexes(outline) == {i \in DOMAIN outline : IsContent(outline[i])}

Min(S) == CHOOSE m \in S : \A n \in S : m <= n

\* third conditional edge of "planner"
planner_to_researcher_router ==
    /\ pc = "planner_routes"
    /\ IF IsSet(error_message) THEN
           /\ pc' = Target("handle_error")
           /\ UNCHANGED <<current_section_title, main_loop_iterations>>
       ELSE IF initial_outline = <<>> THEN
           /\ pc' = Target("compiler")
           /\ UNCHANGED <<current_section_title, main_loop_iterations>>
       ELSE IF ContentIndexes(initial_outline) # {} THEN
           /\ current_section_title' =
                  initial_outline[Min(ContentIndexes(initial_outline))]
           /\ main_loop_iterations' = 1
           /\ pc' = Target("researcher")
       ELSE
           /\ pc' = Target("compiler")
           /\ UNCHANGED <<current_section_title, main_loop_iterations>>
    /\ UNCHANGED <<research_output, research_task, initial_outline, sections_data, research_sets,
                   final_report_md, references, config, error_message, trace, faults_left>>

----------------------------------------------------------------------------
(* researcher *)

\* a source of a research result: a dict (with or without "href") or a string
DictSource(title, href, snippet) ==
    [shape |-> "dict", title |-> title, href |-> href, snippet |-> snippet]

StrSource(text) ==
    [shape |-> "str", title |-> "", href |-> "", snippet |-> text]

SourceA == DictSource("Paper A", "https://a.org", "about a")

\* A result of the research crew's kickoff().  t tells what it is:
\*   "raise"    an exception, txt its text
\*   "blank"    the empty string
\*   "space"    a string of white space only
\*   "text"     a string with a visible character that json.loads rejects
\*   "scalar"   a string that json.loads decodes to a number, string, true,
\*              false or null
\*   "json"     a string that json.loads decodes to the list or dict described
\*              by shape, has_results, results, has_queries, queries
\*   "decoded"  the list or dict itself, not a string
\* shape is "list" (results holds its items), "dict" (has_results/has_queries
\* tell which of the keys "results" and "queries" it has) or "none".
ResearchOutput(t, txt, shape, has_results, results, has_queries, queries) ==
    [t |-> t, txt |-> txt, shape |-> shape,
     has_results |-> has_results, results |-> results,
     has_queries |-> has_queries, queries |-> queries]

Unstructured(t, txt) == ResearchOutput(t, txt, "none", FALSE, <<>>, FALSE, <<>>)

\* what crew.kickoff() of the research crew does
ResearchOutputs ==
    {Unstructured("raise", txt) : txt \in ExcTexts}
    \cup {Unstructured(t, "-") : t \in {"text", "blank"}}
    \cup {ResearchOutput("json", "-", "dict", TRUE, <<SourceA>>,
                         TRUE, <<"query a">>)}

RawResearchText == "free research text"

\* found_sources after the tests on the type of research_output
FoundSources(out) ==
    CASE out.t = "json" ->
             IF out.shape = "dict"
                 THEN (IF out.has_results THEN out.results ELSE <<>>)
                 ELSE out.results
      [] out.t = "decoded" ->
             IF out.shape = "list" THEN out.results
             ELSE IF out.has_results THEN out.results
             ELSE <<>>
      [] OTHER -> <<>>

\* performed_queries after the tests on the type of research_output
PerformedQueries(out) ==
    CASE out.t = "json" ->
             IF out.shape = "dict" /\ out.has_queries THEN out.queries ELSE <<>>
      [] out.t = "decoded" ->
             IF out.shape = "dict" /\ out.has_results /\ out.has_queries
                 THEN out.queries ELSE <<>>
      [] OTHER -> <<>>

\* FallbackRaw dropping the string that is not JSON
FallbackRawDropped(out, raw_data) == raw_data

\* raw_data after the fallback for a string that is not JSON
FallbackRaw(out, raw_data) ==
    IF out.t = "text" THEN Append(raw_data, RawResearchText) ELSE raw_data

SourceText(source) ==
    "Title: " \o source.title \o "\nURL: " \o source.href
              \o "\nSnippet: " \o source.snippet

\* Kept dropping the sources that are strings
KeptOnlyDicts(source) == source.shape = "dict" /\ source.href # ""

\* the sources that the loop over found_sources adds to raw_data: a dict
\* with an "href", or a string
Kept(source) ==
    \/ source.shape = "dict" /\ source.href # ""
    \/ source.shape = "str"

\* the loop over found_sources: raw_data after it
RECURSIVE MergeSources(_, _)
MergeSources(raw_data, found_sources) ==
    IF found_sources = <<>> THEN raw_data
    ELSE LET source == Head(found_sources)
             next == IF ~Kept(source) THEN raw_data
                     ELSE IF source.shape = "dict"
                         THEN Append(raw_data, SourceText(source))
                     ELSE Append(raw_data, source.snippet)
         IN  MergeSources(next, Tail(found_sources))

\* the URLs the loop over found_sources adds to all_collected_urls
SourceUrls(found_sources) ==
    {found_sources[i].href : i \in
        {j \in DOMAIN found_sources : /\ found_sources[j].shape = "dict"
                                      /\ found_sources[j].href # ""}}

\* the questions of a pass that is not recursive: one generic question
InitialQuestions(section_title) ==
    <<"Key information about " \o section_title \o " related to the topic">>

\* QuestionsConsumed leaving the questions in the section
QuestionsKept(sec) == sec

\* the section after its follow-up questions were copied for a recursive pass
QuestionsConsumed(sec) == [sec EXCEPT !.follow_up_questions = <<>>]

\* conduct_research_task leaving the exclusion list empty
conduct_research_task_without_urls(section_title, research_questions, existing_urls, existing_queries) ==
    [section_title |-> section_title,
     research_questions |-> research_questions,
     existing_urls |-> {},
     existing_queries |-> existing_queries]

\* the arguments the research task is built from
conduct_research_task(section_title, research_questions, existing_urls, existing_queries) ==
    [section_title |-> section_title,
     research_questions |-> research_questions,
     existing_urls |-> existing_urls,
     existing_queries |-> existing_queries]

\* research_node from the task's construction on, for a valid current
\* section, when kickoff() does out
ResearchStep(out) ==
    LET recursive == /\ Cur.recursion_depth > 0
                     /\ Cur.follow_up_questions # <<>>
        sec == IF recursive THEN QuestionsConsumed(Cur) ELSE Cur
    IN  /\ trace' = Logged("research", out.t)
        /\ research_output' = out
        /\ research_task' =
               conduct_research_task(
                   current_section_title,
                   IF recursive THEN Cur.follow_up_questions
                                ELSE InitialQuestions(current_section_title),
                   all_collected_urls, all_search_queries)
        /\ IF out.t = "raise" THEN
               /\ error_message' = Err("research", out.txt)
               /\ SetCur(sec)
               /\ UNCHANGED research_sets
           ELSE
               /\ SetCur([sec EXCEPT !.raw_data =
                      MergeSources(FallbackRaw(out, sec.raw_data),
                                   FoundSources(out))])
               /\ all_collected_urls' = all_collected_urls
                      \cup SourceUrls(FoundSources(out))
               /\ all_search_queries' = all_search_queries
                      \cup Range(PerformedQueries(out))
               /\ UNCHANGED error_message

research_node ==
    /\ pc = "researcher"
    /\ pc' = "analyzer"
    /\ IF InvalidSection THEN
           /\ error_message' = Err("research_invalid", "-")
           /\ UNCHANGED <<sections_data, research_sets, research_output,
                          research_task, trace, faults_left>>
       ELSE
           \E out \in ResearchOutputs :
               /\ Backend(out, "json")
               /\ ResearchStep(out)
    /\ UNCHANGED <<initial_outline, current_section_title, main_loop_iterations,
                   final_report_md, references, config>>

----------------------------------------------------------------------------
(* analyzer and the router after it *)

DefaultSummary == "Analysis output was not in the expected format or was empty."

RawAnalysisText == "free analysis text"

CitedA == [title |-> "Paper A", href |-> "https://a.org"]

CitedB == [title |-> "Paper B", href |-> "https://b.org"]

\* what crew.kickoff() of the analysis crew does; a "json" output is a string
\* holding a JSON object ("<missing>": no "summary_of_insights" key)
AnalysisOutputs ==
    [t : {"raise"}, txt : PlainExcTexts, summary : {""}, cited : {<<>>},
     questions : {<<>>}]
    \cup [t : {"text", "blank"}, txt : {"-"}, summary : {""}, cited : {<<>>},
          questions : {<<>>}]
    \cup { [t |-> "json", txt |-> "-", summary |-> "insights",
            cited |-> <<CitedA>>, questions |-> <<>>],
           [t |-> "json", txt |-> "-", summary |-> "insights",
            cited |-> <<CitedB, CitedA, CitedB>>,
            questions |-> <<"question 1", "question 2">>],
           [t |-> "json", txt |-> "-", summary |-> "",
            cited |-> <<>>, questions |-> <<>>] }

RefString(source) == source.title \o " (" \o source.href \o ")"

\* AlreadyListed finding no reference listed
AlreadyListedNever(refs, ref_string) == FALSE

\* ref_string in state.references
AlreadyListed(refs, ref_string) == ref_string \in Range(refs)

\* the loop over cited_sources_from_analysis: state.references after it
RECURSIVE AddReferences(_, _)
AddReferences(refs, cited) ==
    IF cited = <<>> THEN refs
    ELSE LET ref_string == RefString(Head(cited))
         IN  AddReferences(IF AlreadyListed(refs, ref_string)
                               THEN refs ELSE Append(refs, ref_string),
                           Tail(cited))

analysis_node ==
    /\ pc = "analyzer"
    /\ pc' = "decide_after_analysis_router"
    /\ IF InvalidSection THEN
           /\ error_message' = Err("analysis_invalid", "-")
           /\ UNCHANGED <<sections_data, references, trace, faults_left>>
       ELSE
           /\ \E out \in AnalysisOutputs :
                /\ Backend(out, "json")
                /\ trace' = Logged("analyze",
                                   IF out.t = "json" /\ out.questions # <<>>
                                       THEN "questions" ELSE out.t)
                /\ CASE out.t = "raise" ->
                       /\ error_message' = Err("analysis", out.txt)
                       /\ UNCHANGED <<sections_data, references>>
                  [] out.t = "blank" ->
                       /\ SetCur([Cur EXCEPT !.summary = DefaultSummary,
                                             !.follow_up_questions = <<>>])
                       /\ UNCHANGED <<error_message, references>>
                  [] out.t = "text" ->
                       /\ SetCur([Cur EXCEPT !.summary = RawAnalysisText,
                                             !.follow_up_questions = <<>>])
                       /\ error_message' = Err("analysis_json", "-")
                       /\ UNCHANGED references
                  [] out.t = "json" ->
                       /\ SetCur([Cur EXCEPT
                              !.summary = IF out.summary = "<missing>"
                                              THEN DefaultSummary
                                              ELSE out.summary,
                              !.follow_up_questions = out.questions])
                       /\ references' = AddReferences(references, out.cited)
                       /\ UNCHANGED error_message
    /\ UNCHANGED <<research_output, research_task, initial_outline, current_section_title, research_sets,
                   main_loop_iterations, final_report_md, config>>

\* HaltsAfterAnalysis looking for the tag of the exception message
HaltsAfterAnalysisWrongTag(msg) == IsSet(msg) /\ msg.kind = "analysis"

\* the error test of decide_after_analysis
HaltsAfterAnalysis(msg) == IsSet(msg) /\ Contains(msg, "analysis_node")

\* RecursionAllowed with the depth test off by one
RecursionAllowedOffByOne(sec, max_recursion_depth) ==
    /\ sec.follow_up_questions # <<>>
    /\ sec.recursion_depth <= max_recursion_depth

\* the recursion test of decide_after_analysis
RecursionAllowed(sec, max_recursion_depth) ==
    /\ sec.follow_up_questions # <<>>
    /\ sec.recursion_depth < max_recursion_depth

decide_after_analysis ==
    /\ pc = "decide_after_analysis_router"
    /\ IF InvalidSection THEN
           /\ error_message' = Err("decide_after_analysis", "-")
           /\ pc' = Target("handle_error")
           /\ UNCHANGED sections_data
       ELSE IF HaltsAfterAnalysis(error_message) THEN
           /\ pc' = Target("handle_error")
           /\ UNCHANGED <<sections_data, error_message>>
       ELSE IF RecursionAllowed(Cur, max_recursion_depth_per_section) THEN
           /\ SetCur([Cur EXCEPT !.recursion_depth = @ + 1])
           /\ pc' = Target("researcher")
           /\ UNCHANGED error_message
       ELSE
           /\ SetCur([Cur EXCEPT !.follow_up_questions = <<>>])
           /\ pc' = Target("writer")
           /\ UNCHANGED error_message
    /\ UNCHANGED <<research_output, research_task, initial_outline, current_section_title, research_sets,
                   main_loop_iterations, final_report_md, references, config,
                   trace, faults_left>>

----------------------------------------------------------------------------
(* writer, reviewer, reviser and the router after the reviewer *)

\* what crew.kickoff() of the writing crew does ("blank": an empty, blank or
\* non-string result); the same crew serves the reviser
WritingOutputs ==
    [t : {"raise"}, txt : PlainExcTexts]
    \cup [t : {"draft", "blank"}, txt : {"-"}]

\* SummaryMissing taking the empty summary as present
SummaryMissingOnlyNone(sec) == sec.summary = NONE

\* not section_data_obj.summary
SummaryMissing(sec) == ~Truthy(sec.summary)

SkippedDraft == "Content generation skipped due to missing analysis summary."

\* FailedDraft leaving the draft empty
FailedDraftEmpty == ""

\* the draft recorded when the backend returns no text
FailedDraft == "Draft generation failed or produced empty content."

writing_node ==
    /\ pc = "writer"
    /\ pc' = "reviewer"
    /\ IF InvalidSection THEN
           /\ error_message' = Err("writing_invalid", "-")
           /\ UNCHANGED <<sections_data, trace, faults_left>>
       ELSE
           /\ IF SummaryMissing(Cur) THEN
                  /\ trace' = Logged("write", "none")
                  /\ SetCur([Cur EXCEPT !.draft_content = SkippedDraft])
                  /\ UNCHANGED <<error_message, faults_left>>
              ELSE
                  \E out \in WritingOutputs :
                    /\ Backend(out, "draft")
                    /\ trace' = Logged("write", out.t)
                    /\ CASE out.t = "draft" ->
                           /\ SetCur([Cur EXCEPT !.draft_content = "draft text"])
                           /\ UNCHANGED error_message
                      [] out.t = "blank" ->
                           /\ SetCur([Cur EXCEPT !.draft_content = FailedDraft])
                           /\ UNCHANGED error_message
                      [] out.t = "raise" ->
                           /\ SetCur([Cur EXCEPT !.draft_content =
                                  "Error during draft generation: " \o out.txt])
                           /\ error_message' = Err("writing", out.txt)
    /\ UNCHANGED <<research_output, research_task, initial_outline, current_section_title, research_sets,
                   main_loop_iterations, final_report_md, references, config>>

FeedbackTexts == {"Needs more detail.", "Looks good. Approved As Is."}

\* what crew.kickoff() of the review crew does ("blank": an empty or blank
\* string; "nonstr": a result that is not a string)
ReviewOutputs ==
    [t : {"raise"}, txt : PlainExcTexts]
    \cup [t : {"feedback"}, txt : FeedbackTexts]
    \cup [t : {"blank", "nonstr"}, txt : {"-"}]

\* EmptyReviewFeedback reading as an approval
EmptyReviewApproves == "Looks good. Approved As Is."

\* the feedback recorded when the backend returns no text
EmptyReviewFeedback ==
    "Reviewer provided no actionable feedback or an empty response."

\* the feedback recorded for a section without a draft
NoDraftFeedback == "No draft content to review."

\* str(e) of the TypeError that feedback[:100] raises on a non-string
NotSubscriptable == "object is not subscriptable"

review_node ==
    /\ pc = "reviewer"
    /\ pc' = "decide_to_revise_or_continue"
    /\ IF InvalidSection THEN
           /\ error_message' = Err("review_invalid", "-")
           /\ UNCHANGED <<sections_data, trace, faults_left>>
       ELSE
           /\ IF ~Truthy(Cur.draft_content) THEN
                  /\ trace' = Logged("review", "none")
                  /\ SetCur([Cur EXCEPT !.review_feedback = NoDraftFeedback])
                  /\ UNCHANGED <<error_message, faults_left>>
              ELSE
                  \E out \in ReviewOutputs :
                    /\ Backend(out, "feedback")
                    /\ trace' = Logged("review",
                                       IF out.t # "feedback" THEN out.t
                                       ELSE IF Approved(out.txt) THEN "approved"
                                       ELSE "needs")
                    /\ CASE out.t = "feedback" ->
                           /\ SetCur([Cur EXCEPT !.review_feedback = out.txt])
                           /\ UNCHANGED error_message
                      [] out.t = "blank" ->
                           /\ SetCur([Cur EXCEPT !.review_feedback =
                                  EmptyReviewFeedback])
                           /\ UNCHANGED error_message
                      [] out.t \in {"raise", "nonstr"} ->
                           LET txt == IF out.t = "raise" THEN out.txt
                                                         ELSE NotSubscriptable
                           IN  /\ SetCur([Cur EXCEPT !.review_feedback =
                                      "Error during review: " \o txt])
                               /\ error_message' = Err("review", txt)
    /\ UNCHANGED <<research_output, research_task, initial_outline, current_section_title, research_sets,
                   main_loop_iterations, final_report_md, references, config>>

\* HaltsBeforeRevision taking every stage's own message as local
HaltsBeforeRevisionLenient(msg) ==
    /\ IsSet(msg)
    /\ msg.kind \notin {"research", "analysis", "writing", "review", "revision"}
    /\ ~\E err_tag \in {"review node", "revision node",
                        "review_section_task", "revision_task"} :
            LowerContains(msg, err_tag)

\* the error test of decide_to_revise_or_continue
HaltsBeforeRevision(msg) ==
    /\ IsSet(msg)
    /\ ~\E err_tag \in {"review node", "revision node",
                        "review_section_task", "revision_task"} :
            LowerContains(msg, err_tag)

\* RevisionNeeded with the attempts test off by one
RevisionNeededOffByOne(sec, max_revision_cycles) ==
    /\ Truthy(sec.review_feedback)
    /\ ~Approved(sec.review_feedback)
    /\ sec.revision_attempts <= max_revision_cycles

\* the revision test of decide_to_revise_or_continue
RevisionNeeded(sec, max_revision_cycles) ==
    /\ Truthy(sec.review_feedback)
    /\ ~Approved(sec.review_feedback)
    /\ sec.revision_attempts < max_revision_cycles

\* KeptOrCritical overwriting a message already set
KeptOrCriticalOverwriting(msg) == Err("critical", "-")

\* error_message after the review decision found no valid current section
KeptOrCritical(msg) == IF IsSet(msg) THEN msg ELSE Err("critical", "-")

decide_to_revise_or_continue ==
    /\ pc = "decide_to_revise_or_continue"
    /\ IF InvalidSection THEN
           /\ error_message' = KeptOrCritical(error_message)
           /\ pc' = Target("handle_error")
       ELSE IF HaltsBeforeRevision(error_message) THEN
           /\ pc' = Target("handle_error")
           /\ UNCHANGED error_message
       ELSE IF RevisionNeeded(Cur, max_revision_cycles_per_section) THEN
           /\ pc' = Target("revise_section")
           /\ UNCHANGED error_message
       ELSE
           /\ pc' = Target("continue_to_next_main_task")
           /\ UNCHANGED error_message
    /\ UNCHANGED <<research_output, research_task, initial_outline, sections_data, current_section_title,
                   research_sets, main_loop_iterations, final_report_md,
                   references, config, trace, faults_left>>

\* Revised without counting the revision
RevisedUncounted(sec) == [sec EXCEPT !.draft_content = "revised text"]

\* the section after a revision that returned a non-empty text
Revised(sec) ==
    [sec EXCEPT !.draft_content = "revised text", !.revision_attempts = @ + 1]

revision_node ==
    /\ pc = "reviser"
    /\ IF InvalidSection THEN
           /\ error_message' = Err("revision_invalid", "-")
           /\ pc' = "reviewer"
           /\ UNCHANGED <<sections_data, trace, faults_left>>
       ELSE
           /\ IF ~Truthy(Cur.review_feedback) \/ Approved(Cur.review_feedback) THEN
                  /\ pc' = "reviewer"
                  /\ trace' = Logged("revise", "none")
                  /\ UNCHANGED <<sections_data, error_message, faults_left>>
              ELSE IF Cur.draft_content = NONE THEN
                  \* draft_content[:500] of None: the TypeError leaves the graph
                  /\ pc' = "crashed"
                  /\ UNCHANGED <<sections_data, error_message, faults_left, trace>>
              ELSE
                  /\ pc' = "reviewer"
                  /\ \E out \in WritingOutputs :
                       /\ Backend(out, "draft")
                       /\ trace' = Logged("revise", out.t)
                       /\ CASE out.t = "draft" ->
                              /\ SetCur(Revised(Cur))
                              /\ UNCHANGED error_message
                         [] out.t = "blank" ->
                              UNCHANGED <<sections_data, error_message>>
                         [] out.t = "raise" ->
                              /\ error_message' = Err("revision", out.txt)
                              /\ UNCHANGED sections_data
    /\ UNCHANGED <<research_output, research_task, initial_outline, current_section_title, research_sets,
                   main_loop_iterations, final_report_md, references, config>>

----------------------------------------------------------------------------
(* loop controller, compiler, error handler *)

\* Unhandled without the error test
UnhandledNever(msg) == FALSE

\* the error test of should_continue_overall_loop
Unhandled(msg) ==
    /\ IsSet(msg)
    /\ ~\E tag \in {"analysis_node", "review_node", "revision_node",
                    "planner_node"} : Contains(msg, tag)

\* Processable without the test for a draft
ProcessableIgnoringDraft(outline, sections) ==
    {i \in DOMAIN outline :
        /\ outline[i] \in DOMAIN sections
        /\ IsContent(outline[i])
        /\ sections[outline[i]].recursion_depth = 0}

\* the positions of the outline that the scan of should_continue_overall_loop
\* accepts
Processable(outline, sections) ==
    {i \in DOMAIN outline :
        /\ outline[i] \in DOMAIN sections
        /\ IsContent(outline[i])
        /\ ~Truthy(sections[outline[i]].draft_content)
        /\ sections[outline[i]].recursion_depth = 0}

should_continue_overall_loop ==
    /\ pc = "research_loop_controller"
    /\ IF Unhandled(error_message) THEN
           /\ pc' = Target("handle_error")
           /\ UNCHANGED <<sections_data, current_section_title,
                          main_loop_iterations>>
       ELSE IF main_loop_iterations >= max_main_loop_iterations THEN
           /\ pc' = Target("compile_report")
           /\ UNCHANGED <<sections_data, current_section_title,
                          main_loop_iterations>>
       ELSE IF Processable(initial_outline, sections_data) # {} THEN
           LET next_section_to_process ==
                   initial_outline[Min(Processable(initial_outline, sections_data))]
           IN  /\ current_section_title' = next_section_to_process
               /\ sections_data' =
                      [sections_data EXCEPT ![next_section_to_process] =
                          [@ EXCEPT !.recursion_depth = 0,
                                    !.follow_up_questions = <<>>]]
               /\ main_loop_iterations' = main_loop_iterations + 1
               /\ pc' = Target("process_next_section")
       ELSE
           /\ pc' = Target("compile_report")
           /\ UNCHANGED <<sections_data, current_section_title,
                          main_loop_iterations>>
    /\ UNCHANGED <<research_output, research_task, initial_outline, research_sets, final_report_md, references,
                   config, error_message, trace, faults_left>>

\* a section of the report filled in by the compiler when it has no draft
Backfilled(sections, title, content) ==
    IF title \notin DOMAIN sections
        THEN [t \in DOMAIN sections \cup {title} |->
                 IF t = title
                     THEN [SectionData(title) EXCEPT !.draft_content = content]
                     ELSE sections[t]]
    ELSE IF ~Truthy(sections[title].draft_content)
        THEN [sections EXCEPT ![title].draft_content = content]
    ELSE sections

\* OrderedTitles putting the sections that are not in the outline first
OrderedTitlesUnlistedFirst(outline, sections) ==
    SelectSeq(<<"Introduction", "Conclusion", "References">>,
              LAMBDA t : t \in DOMAIN sections /\ t \notin Range(outline))
    \o SelectSeq(outline, LAMBDA t : t \in DOMAIN sections)

\* the titles of ordered_sections_data, in order: the outline's, then the others
\* in the order in which the compiler inserted them
OrderedTitles(outline, sections) ==
    LET listed == SelectSeq(outline, LAMBDA t : t \in DOMAIN sections)
        added == SelectSeq(<<"Introduction", "Conclusion", "References">>,
                           LAMBDA t : t \in DOMAIN sections /\ t \notin Range(outline))
    IN  listed \o added

compile_report_node ==
    /\ pc = "compiler"
    /\ pc' = "END"
    /\ LET with_intro == Backfilled(sections_data, "Introduction",
                                    "placeholder introduction")
           with_concl == Backfilled(with_intro, "Conclusion",
                                    "placeholder conclusion")
           with_refs == Backfilled(with_concl, "References",
                "_No specific references were compiled for this report version._")
       IN  /\ sections_data' = with_refs
           /\ final_report_md' = OrderedTitles(initial_outline, with_refs)
    /\ UNCHANGED <<research_output, research_task, initial_outline, current_section_title, research_sets,
                   main_loop_iterations, references, config, error_message,
                   trace, faults_left>>

\* error_handling_node handing the run on to the compiler
error_handling_node_then_compiler ==
    /\ pc = "error_handler"
    /\ pc' = "compiler"
    /\ UNCHANGED <<research_output, research_task, initial_outline, sections_data, current_section_title,
                   research_sets, main_loop_iterations, final_report_md,
                   references, config, error_message, trace, faults_left>>

error_handling_node ==
    /\ pc = "error_handler"
    /\ pc' = "END"
    /\ UNCHANGED <<research_output, research_task, initial_outline, sections_data, current_section_title,
                   research_sets, main_loop_iterations, final_report_md,
                   references, config, error_message, trace, faults_left>>

----------------------------------------------------------------------------
(* The graph *)

Next ==
    \/ planning_node
    \/ planner_edge_1
    \/ planner_edge_2
    \/ planner_to_researcher_router
    \/ research_node
    \/ analysis_node
    \/ decide_after_analysis
    \/ writing_node
    \/ review_node
    \/ decide_to_revise_or_continue
    \/ revision_node
    \/ should_continue_overall_loop
    \/ compile_report_node
    \/ error_handling_node

Spec == Init /\ [][Next]_vars

\* Runs in which the backend may fail any number of times; the graph runs a
\* node whenever one is due.  No stage history is kept (it starts full).
LiveInit ==
    /\ InitState
    /\ trace = [t \in Titles |->
                    [i \in 1..MaxTrace |-> [stage |-> "-", reply |-> "-"]]]
    /\ max_revision_cycles_per_section = 1
    /\ max_main_loop_iterations = 1
    /\ max_recursion_depth_per_section = 1
    /\ faults_left = Unlimited

LiveSpec == LiveInit /\ [][Next]_vars /\ WF_vars(Next)

\* Runs over one section in which the backend fails once more than in Spec
\* (so that a failure can follow a failure of an earlier stage).
ExtraFaultInit ==
    /\ InitState
    /\ trace = [t \in Titles |-> <<>>]
    /\ max_revision_cycles_per_section \in 0..RevCapBound
    /\ max_main_loop_iterations = 1
    /\ max_recursion_depth_per_section \in 0..RecCapBound
    /\ faults_left = MaxFaults + 1

ExtraFaultSpec == ExtraFaultInit /\ [][Next]_vars

\* Runs whose outline is parsed from any planner text of at most MaxLines
\* lines; one section is processed.
PlanInit ==
    /\ InitState
    /\ trace = [t \in Titles |-> <<>>]
    /\ max_revision_cycles_per_section = 1
    /\ max_main_loop_iterations = 1
    /\ max_recursion_depth_per_section = 1
    /\ faults_left = 1

PlanNext ==
    \/ planning_node_parsed
    \/ planner_edge_1
    \/ planner_edge_2
    \/ planner_to_researcher_router
    \/ research_node
    \/ analysis_node
    \/ decide_after_analysis
    \/ writing_node
    \/ review_node
    \/ decide_to_revise_or_continue
    \/ revision_node
    \/ should_continue_overall_loop
    \/ compile_report_node
    \/ error_handling_node

PlanSpec == PlanInit /\ [][PlanNext]_vars

----------------------------------------------------------------------------
(* The normalization of a research result, on its own *)

SourceB == DictSource("Paper B", "https://b.org", "about b")

\* a dict without "href": source.get("href") is None
NoHrefSource == DictSource("Paper C", "", "about c")

NoteSource == StrSource("a note")

NormSourceLists ==
    { <<>>, <<SourceA>>, <<NoteSource>>, <<NoHrefSource, SourceB>>,
      <<SourceA, NoteSource>> }

NormQueryLists == { <<>>, <<"query a">>, <<"query a", "query b">> }

\* lists of sources and dicts with "results" and/or "queries" or neither, each
\* as the object itself ("decoded") and as the string that json.loads decodes
\* to it ("json"); the strings that are not the JSON of a list or dict; and
\* an exception raised by the call
NormPayloads ==
    { ResearchOutput(t, "-", "list", FALSE, r, FALSE, <<>>) :
          t \in {"json", "decoded"}, r \in NormSourceLists }
    \cup { ResearchOutput(t, "-", "dict", TRUE, r, FALSE, <<>>) :
          t \in {"json", "decoded"}, r \in NormSourceLists }
    \cup { ResearchOutput(t, "-", "dict", FALSE, <<>>, TRUE, q) :
          t \in {"json", "decoded"}, q \in NormQueryLists }
    \cup { ResearchOutput(t, "-", "dict", TRUE, r, TRUE, q) :
          t \in {"json", "decoded"}, r \in NormSourceLists,
          q \in NormQueryLists }
    \cup { ResearchOutput(t, "-", "dict", FALSE, <<>>, FALSE, <<>>) :
          t \in {"json", "decoded"} }
    \cup { Unstructured(t, "-") : t \in {"text", "blank", "space", "scalar"} }
    \cup { Unstructured("raise", txt) : txt \in ExcTexts }

NormOutline == <<"Introduction", "Background", "Conclusion", "References">>

\* The researcher is about to run for "Background", in its first pass or in
\* a recursive pass after a first pass that found SourceA, and kickoff() is
\* going to return research_output.
NormInit ==
    /\ pc = "researcher"
    /\ initial_outline = NormOutline
    /\ current_section_title = "Background"
    /\ main_loop_iterations = 1
    /\ final_report_md = <<>>
    /\ error_message = NoError
    /\ max_revision_cycles_per_section = 1
    /\ max_main_loop_iterations = 1
    /\ max_recursion_depth_per_section = 1
    /\ faults_left = 0
    /\ research_output \in NormPayloads
    /\ \E first_pass \in BOOLEAN :
         IF first_pass THEN
             /\ sections_data = [t \in Range(NormOutline) |-> SectionData(t)]
             /\ all_collected_urls = {}
             /\ all_search_queries = {}
             /\ references = <<>>
             /\ research_task = NoTask
             /\ trace = [t \in Titles |-> <<>>]
         ELSE
             /\ sections_data =
                    [t \in Range(NormOutline) |->
                        IF t = "Background"
                            THEN [SectionData(t) EXCEPT
                                     !.raw_data = <<SourceText(SourceA)>>,
                                     !.summary = "insights",
                                     !.follow_up_questions =
                                         <<"question 1", "question 2">>,
                                     !.recursion_depth = 1]
                            ELSE SectionData(t)]
             /\ all_collected_urls = {SourceA.href}
             /\ all_search_queries = {"query a"}
             /\ references = <<RefString(CitedB), RefString(CitedA)>>
             /\ research_task =
                    conduct_research_task("Background",
                                          InitialQuestions("Background"),
                                          {}, {})
             /\ trace = [t \in Titles |->
                    IF t = "Background"
                        THEN << [stage |-> "research", reply |-> "json"],
                                [stage |-> "analyze", reply |-> "questions"] >>
                        ELSE <<>>]

\* research_node when kickoff() returns research_output
normalize_research_output ==
    /\ pc = "researcher"
    /\ pc' = "analyzer"
    /\ ~InvalidSection
    /\ ResearchStep(research_output)
    /\ UNCHANGED <<initial_outline, current_section_title, main_loop_iterations,
                   final_report_md, references, config, faults_left>>

NormNext == normalize_research_output

NormSpec == NormInit /\ [][NormNext]_vars

----------------------------------------------------------------------------
(* The reviewer entered for a section without a draft *)

\* review_node tests for a missing draft (lines 393-397), but no run of the
\* graph from the planner brings it one: writing_node leaves a non-empty
\* draft_content on each of its paths.  Here the reviewer is about to run for
\* "Background" with draft_content None or empty, given as the node's input,
\* and the graph runs on from there.
ReviewInit ==
    /\ pc = "reviewer"
    /\ initial_outline = NormOutline
    /\ current_section_title = "Background"
    /\ main_loop_iterations = 1
    /\ final_report_md = <<>>
    /\ error_message = NoError
    /\ all_collected_urls = {}
    /\ all_search_queries = {}
    /\ references = <<>>
    /\ research_output = NoOutput
    /\ research_task = NoTask
    /\ trace = [t \in Titles |-> <<>>]
    /\ faults_left = MaxFaults
    /\ max_revision_cycles_per_section \in 0..RevCapBound
    /\ max_main_loop_iterations \in 1..IterCapBound
    /\ max_recursion_depth_per_section \in 0..RecCapBound
    /\ \E draft \in {NONE, ""}, summary \in {NONE, "insights"} :
         sections_data =
             [t \in Range(NormOutline) |->
                 IF t = "Background"
                     THEN [SectionData(t) EXCEPT !.summary = summary,
                                                 !.draft_content = draft]
                     ELSE SectionData(t)]

ReviewNext ==
    \/ research_node
    \/ analysis_node
    \/ decide_after_analysis
    \/ writing_node
    \/ review_node
    \/ decide_to_revise_or_continue
    \/ revision_node
    \/ should_continue_overall_loop
    \/ compile_report_node
    \/ error_handling_node

ReviewSpec == ReviewInit /\ [][ReviewNext]_vars

----------------------------------------------------------------------------
(* The two decisions entered without a valid current section *)

\* Both routers test current_section_title first (lines 541-547, 576-581).
\* Runs from the planner bring the decision after the analysis an unset title
\* only, and the decision after the review none at all (no writer runs before
\* it without a valid section).  Here either router is about to run with
\* current_section_title None or a title that is not a key of sections_data,
\* and with error_message unset or set by an earlier node.
DecisionInit ==
    /\ pc \in {"decide_after_analysis_router", "decide_to_revise_or_continue"}
    /\ initial_outline = NormOutline
    /\ sections_data = [t \in Range(NormOutline) |-> SectionData(t)]
    /\ current_section_title \in {NONE, "Methods"}
    /\ main_loop_iterations \in {0, 1}
    /\ final_report_md = <<>>
    /\ error_message \in {NoError, Err("analysis_invalid", "-"),
                          Err("review_invalid", "-"),
                          Err("research", "timeout")}
    /\ all_collected_urls = {}
    /\ all_search_queries = {}
    /\ references = <<>>
    /\ research_output = NoOutput
    /\ research_task = NoTask
    /\ trace = [t \in Titles |-> <<>>]
    /\ faults_left = 0
    /\ max_revision_cycles_per_section \in 0..RevCapBound
    /\ max_main_loop_iterations \in 0..IterCapBound
    /\ max_recursion_depth_per_section \in 0..RecCapBound

DecisionNext ==
    \/ decide_after_analysis
    \/ decide_to_revise_or_continue
    \/ error_handling_node

DecisionSpec == DecisionInit /\ [][DecisionNext]_vars

----------------------------------------------------------------------------
(* Properties *)

Last(seq) == seq[Len(seq)]

\* how often a stage occurs in a stage history
Count(tr, stage) == Cardinality({i \in DOMAIN tr : tr[i].stage = stage})

Stages(tr) == [i \in DOMAIN tr |-> tr[i].stage]

IsPrefix(a, b) == Len(a) <= Len(b) /\ \A i \in DOMAIN a : a[i] = b[i]

\* no stage of the history met a backend failure
NoFailure(tr) == \A i \in DOMAIN tr : tr[i].reply \notin FailureReplies

\* every run of the stage in the history got one of the replies
AllReplies(tr, stage, replies) ==
    \A i \in DOMAIN tr : tr[i].stage = stage => tr[i].reply \in replies

\* the current section is valid and its latest stage and reply are these
JustRan(stage, reply) ==
    /\ ~InvalidSection
    /\ trace[current_section_title] # <<>>
    /\ Last(trace[current_section_title]) = [stage |-> stage, reply |-> reply]

\* the messages of an exception raised by the research, analysis or writing
\* backend call
EarlyStageFailure(msg) == msg.kind \in {"research", "analysis", "writing"}

\* C1: in every reachable state, every section's recursion_depth is at most
\* max_recursion_depth_per_section.
RecursionDepthBounded ==
    \A t \in DOMAIN sections_data :
        sections_data[t].recursion_depth <= max_recursion_depth_per_section

\* a section at the cap goes to the writer although its analysis asked for more
RecursionCapReached ==
    /\ pc = "writer"
    /\ JustRan("analyze", "questions")
    /\ max_recursion_depth_per_section >= 1
    /\ Cur.recursion_depth = max_recursion_depth_per_section

\* C2: in every reachable state, every section's revision_attempts is at most
\* max_revision_cycles_per_section.
RevisionAttemptsBounded ==
    \A t \in DOMAIN sections_data :
        sections_data[t].revision_attempts <= max_revision_cycles_per_section

\* a section at the cap is accepted although its review asked for changes
RevisionCapReached ==
    /\ pc = "research_loop_controller"
    /\ JustRan("review", "needs")
    /\ max_revision_cycles_per_section >= 1
    /\ Cur.revision_attempts = max_revision_cycles_per_section

\* C3: every run eventually reaches the compiler or the error handler, whatever
\* the backend does.
RunTerminates == <>(pc \in {"compiler", "error_handler"})

LateStageFailureWhitelisted ==
    pc = "error_handler" => error_message.kind \notin {"review", "revision"}

\* the reviews of the history asked for changes (or were empty) and its
\* revisions returned a draft
NeverApproved(tr) ==
    /\ AllReplies(tr, "review", {"needs", "blank"})
    /\ AllReplies(tr, "revise", {"draft"})

OnePass == <<"research", "analyze", "write", "review">>

\* C9: with both caps 0 and no backend failure, a section runs research,
\* analysis, writing and review once each, in that order, is accepted right
\* after that review whatever the analysis asked and the review said, and is
\* never revised.
SinglePassWhenCapsZero ==
    \A t \in Titles :
        ( /\ max_recursion_depth_per_section = 0
          /\ max_revision_cycles_per_section = 0
          /\ NoFailure(trace[t]) )
        => /\ IsPrefix(Stages(trace[t]), OnePass)
           /\ (current_section_title = t /\ Stages(trace[t]) = OnePass)
                  => pc \in {"decide_to_revise_or_continue",
                             "research_loop_controller", "compiler", "END"}
           /\ (current_section_title = t /\ trace[t] # <<>>
                  /\ pc \in {"research_loop_controller", "compiler", "END"})
                  => Stages(trace[t]) = OnePass

SinglePassDespiteRequests ==
    /\ max_recursion_depth_per_section = 0
    /\ max_revision_cycles_per_section = 0
    /\ pc = "research_loop_controller"
    /\ ~InvalidSection
    /\ trace[current_section_title] =
           << [stage |-> "research", reply |-> "json"],
              [stage |-> "analyze", reply |-> "questions"],
              [stage |-> "write", reply |-> "draft"],
              [stage |-> "review", reply |-> "needs"] >>

\* C10: when the writer runs for a section all of whose analysis passes asked
\* follow-up questions, the section has had exactly
\* max_recursion_depth_per_section + 1 research passes, its recursion_depth is
\* max_recursion_depth_per_section and its follow_up_questions is empty.
RecursionExhaustedBeforeWrite ==
    ( /\ pc = "writer"
      /\ ~InvalidSection
      /\ AllReplies(trace[current_section_title], "analyze", {"questions"}) )
    => /\ Count(trace[current_section_title], "research")
              = max_recursion_depth_per_section + 1
       /\ Count(trace[current_section_title], "analyze")
              = max_recursion_depth_per_section + 1
       /\ Cur.recursion_depth = max_recursion_depth_per_section
       /\ Cur.follow_up_questions = <<>>

OneExtraResearchPass ==
    /\ pc = "writer"
    /\ ~InvalidSection
    /\ max_recursion_depth_per_section = 1
    /\ AllReplies(trace[current_section_title], "analyze", {"questions"})
    /\ Count(trace[current_section_title], "research") = 2
    /\ Cur.recursion_depth = 1

\* C11: a section is dispatched at most once: whenever the planner's router or
\* the loop controller makes a section the current one and sends it to the
\* researcher, no stage has run for that section before and it has no draft,
\* whatever the backend returned for the sections before it.
SectionDispatchedOnce ==
    [][ ( /\ pc \in {"planner_routes", "research_loop_controller"}
          /\ pc' = "researcher"
          /\ current_section_title' # NONE )
        => /\ current_section_title' \in DOMAIN sections_data'
           /\ trace[current_section_title'] = <<>>
           /\ sections_data[current_section_title'].draft_content = NONE
      ]_vars

\* the second content section is dispatched after the first one was handed
\* back with a failed draft
NextSectionAfterFailedDraft ==
    /\ pc = "researcher"
    /\ current_section_title = "Methods"
    /\ main_loop_iterations = 2
    /\ trace["Methods"] = <<>>
    /\ \E i \in DOMAIN trace["Background"] :
           trace["Background"][i] = [stage |-> "write", reply |-> "blank"]
    /\ "Background" \in DOMAIN sections_data
    /\ sections_data["Background"].draft_content =
           "Draft generation failed or produced empty content."

\* the content sections of the outline all have a non-empty draft
AllContentDrafted ==
    \A i \in DOMAIN initial_outline :
        IsContent(initial_outline[i])
            => /\ initial_outline[i] \in DOMAIN sections_data
               /\ Truthy(sections_data[initial_outline[i]].draft_content)

\* C12: whenever the compiler is about to run, every content section of the
\* outline has a non-empty draft or main_loop_iterations has reached
\* max_main_loop_iterations, on every route out of planning and out of the
\* loop controller.
CompilerOnlyWhenDone ==
    pc = "compiler"
        => \/ AllContentDrafted
           \/ main_loop_iterations >= max_main_loop_iterations

\* C13: a run ends in one of two terminals.  The error handler runs with
\* error_message set and final_report_md unset and ends the run leaving both
\* as they are; the compiler ends the run with final_report_md set; no other
\* step writes final_report_md, and once set it does not change.
TerminalsExclusive ==
    [][ /\ pc = "error_handler"
            => /\ IsSet(error_message)
               /\ final_report_md = <<>>
               /\ pc' = "END"
               /\ UNCHANGED <<error_message, final_report_md>>
        /\ pc = "compiler"
            => /\ final_report_md = <<>>
               /\ pc' = "END"
               /\ final_report_md' # <<>>
        /\ pc # "compiler" => UNCHANGED final_report_md
        /\ final_report_md # <<>> => UNCHANGED final_report_md
        /\ pc' = "END" => pc \in {"compiler", "error_handler"}
      ]_vars

\* a run that processed a section has ended in the compiler
EndedWithDocument ==
    /\ pc = "END"
    /\ final_report_md # <<>>
    /\ main_loop_iterations >= 1
    /\ AllContentDrafted

\* C14: the error handler is terminal: the step it takes ends the run and
\* changes no section record, no stage history and no research data, and no
\* step follows the end of the run.
ErrorEscalationTerminal ==
    [][ /\ pc = "error_handler"
            => /\ pc' = "END"
               /\ UNCHANGED <<sections_data, trace, current_section_title,
                              research_sets, references, main_loop_iterations,
                              final_report_md>>
        /\ pc # "END"
      ]_vars

\* the run ended in the error handler while a section was in its pipeline
EndedInErrorMidSection ==
    /\ pc = "END"
    /\ final_report_md = <<>>
    /\ IsSet(error_message)
    /\ ~InvalidSection
    /\ trace[current_section_title] # <<>>
    /\ ~AllContentDrafted

\* the three caps, reached at the router that tests them
RecursionCapHit ==
    /\ pc = "decide_after_analysis_router"
    /\ ~InvalidSection
    /\ Cur.follow_up_questions # <<>>
    /\ Cur.recursion_depth >= max_recursion_depth_per_section

RevisionCapHit ==
    /\ pc = "decide_to_revise_or_continue"
    /\ ~InvalidSection
    /\ Truthy(Cur.review_feedback)
    /\ ~Approved(Cur.review_feedback)
    /\ Cur.revision_attempts >= max_revision_cycles_per_section

IterationCeilingHit ==
    /\ pc = "research_loop_controller"
    /\ main_loop_iterations >= max_main_loop_iterations

ResearchReturned(reply) ==
    /\ pc = "researcher"
    /\ pc' = "analyzer"
    /\ ~InvalidSection
    /\ trace'[current_section_title] =
           Append(trace[current_section_title],
                  [stage |-> "research", reply |-> reply])

\* what C16 says of a research step: the raw string is the one artifact
\* added to raw_data, and nothing else changes
KeptAsOneArtifact ==
    /\ Cur'.raw_data = Append(Cur.raw_data, RawResearchText)
    /\ UNCHANGED <<error_message, all_collected_urls, all_search_queries>>

\* C16, as stated: a research result that is a non-empty string and is not
\* JSON (a string of white space only included) is appended to the current
\* section's raw_data as one artifact; error_message, all_collected_urls and
\* all_search_queries are unchanged and the analyzer runs next.
UndecodableResearchKept ==
    [][ \A reply \in {"text", "space"} :
            ResearchReturned(reply) => KeptAsOneArtifact
      ]_vars

\* C16, amended: a research result that is a string with at least one
\* character other than white space and that is not JSON is appended to the
\* current section's raw_data as one artifact; a string of white space only
\* adds nothing to raw_data; in both cases error_message, all_collected_urls
\* and all_search_queries are unchanged and the analyzer runs next.
NonBlankResearchKept ==
    [][ /\ ResearchReturned("text") => KeptAsOneArtifact
        /\ ResearchReturned("space")
               => /\ Cur'.raw_data = Cur.raw_data
                  /\ UNCHANGED <<error_message, all_collected_urls,
                                 all_search_queries>>
      ]_vars

\* the analyzer is about to run on a section whose only finding is the raw
\* research text
RawTextIsOnlyFinding ==
    /\ pc = "analyzer"
    /\ JustRan("research", "text")
    /\ Cur.raw_data = <<RawResearchText>>
    /\ all_collected_urls = {}
    /\ ~IsSet(error_message)

\* C17: every research call made for a section is given, as its exclusion
\* list, exactly the URLs in all_collected_urls at the moment of the call; and
\* no step removes a URL from all_collected_urls, so a URL collected by an
\* earlier pass of any section is in the exclusion list of every later call.
ExclusionListIsCollectedUrls ==
    [][ /\ (pc = "researcher" /\ pc' = "analyzer" /\ ~InvalidSection)
            => /\ research_task'.existing_urls = all_collected_urls
               /\ research_task.existing_urls \subseteq
                      research_task'.existing_urls
        /\ all_collected_urls \subseteq all_collected_urls'
      ]_vars

\* the research call of the second section excluded the URL that the first
\* section's research collected
SecondSectionExcludesFirstUrl ==
    /\ pc = "analyzer"
    /\ current_section_title = "Methods"
    /\ research_task.section_title = "Methods"
    /\ research_task.existing_urls = {"https://a.org"}
    /\ trace["Background"] # <<>>
    /\ Count(trace["Methods"], "research") = 1

\* C18: references never holds the same string twice, and every step leaves
\* the entries it held in place: the references before a step are a prefix of
\* the references after it.
ReferencesAppendOnlyDistinct ==
    [][ /\ IsPrefix(references, references')
        /\ \A i, j \in DOMAIN references' :
               references'[i] = references'[j] => i = j
      ]_vars

\* a later analysis pass cited a source already listed and a new one: the
\* new one came second
CitedAgainAndAppended ==
    /\ references = <<RefString(CitedA), RefString(CitedB)>>
    /\ JustRan("analyze", "questions")
    /\ pc = "decide_after_analysis_router"

\* C19: in every reachable state current_section_title is None or a key of
\* sections_data, and whenever the researcher, analyzer, writer, reviewer or
\* reviser is about to run, current_section_title is a key of sections_data,
\* on every route out of planning.
CurrentSectionValid ==
    /\ current_section_title = NONE
           \/ current_section_title \in DOMAIN sections_data
    /\ pc \in {"researcher", "analyzer", "writer", "reviewer", "reviser"}
           => ~InvalidSection

\* the string that is the JSON text of a decoded list or dict
AsText(out) == [out EXCEPT !.t = "json"]

\* C20: a research result that is a decoded list or dict adds to the current
\* section's raw_data the same sources, and to all_search_queries the same
\* queries, as the JSON text of that list or dict does, for every shape (a
\* list, a dict with "results", with "queries", with both or with neither).
DecodedAgreesWithText ==
    [][ (pc = "researcher" /\ pc' = "analyzer" /\ research_output'.t = "decoded")
        => LET text == AsText(research_output')
           IN  /\ Cur'.raw_data =
                      MergeSources(FallbackRaw(text, Cur.raw_data),
                                   FoundSources(text))
               /\ all_search_queries' =
                      all_search_queries \cup Range(PerformedQueries(text))
      ]_vars

\* C21: no section is dispatched to the researcher when main_loop_iterations
\* has reached max_main_loop_iterations: the planner's router and the loop
\* controller make a section current and go to the researcher only while
\* main_loop_iterations < max_main_loop_iterations, and at the ceiling, with no
\* error set, they go to the compiler.
NoDispatchAtCeiling ==
    [][ ( /\ pc \in {"planner_routes", "research_loop_controller"}
          /\ main_loop_iterations >= max_main_loop_iterations )
        => /\ ~(pc' = "researcher" /\ current_section_title' # NONE)
           /\ ~IsSet(error_message) => pc' = "compiler"
      ]_vars

\* the analysis just run for the current section returned a result without an
\* error: a JSON object or an empty result
AnalysisSucceeded ==
    \E reply \in {"json", "questions", "blank"} : JustRan("analyze", reply)

\* C22: after an analysis without error of a valid current section, the
\* researcher runs next if and only if the section has follow-up questions and
\* recursion_depth < max_recursion_depth_per_section, and then recursion_depth
\* grows by exactly 1 and the questions are kept; otherwise the writer runs
\* next, recursion_depth is unchanged and follow_up_questions is empty.
RecurseIffQuestionsBelowCap ==
    [][ (pc = "decide_after_analysis_router" /\ AnalysisSucceeded)
        => IF /\ Cur.follow_up_questions # <<>>
              /\ Cur.recursion_depth < max_recursion_depth_per_section
               THEN /\ pc' = "researcher"
                    /\ Cur'.recursion_depth = Cur.recursion_depth + 1
                    /\ Cur'.follow_up_questions = Cur.follow_up_questions
               ELSE /\ pc' = "writer"
                    /\ Cur'.recursion_depth = Cur.recursion_depth
                    /\ Cur'.follow_up_questions = <<>>
      ]_vars

\* the researcher is about to run a recursive pass on the questions asked
RecursivePassDue ==
    /\ pc = "researcher"
    /\ JustRan("analyze", "questions")
    /\ Cur.recursion_depth = 1
    /\ Cur.follow_up_questions = <<"question 1", "question 2">>

\* C23: after a review of a valid current section, with no error that halts
\* the section, the reviser runs next if and only if review_feedback is
\* non-empty, does not hold "approved as is" in any letter case, and
\* revision_attempts < max_revision_cycles_per_section; in every other case
\* the section is handed back to the loop controller.
ReviseIffUnapprovedBelowCap ==
    [][ ( /\ pc = "decide_to_revise_or_continue"
          /\ ~InvalidSection
          /\ Count(trace[current_section_title], "review") >= 1
          /\ ~HaltsBeforeRevision(error_message) )
        => IF /\ Cur.review_feedback \notin {NONE, ""}
              /\ Cur.review_feedback # "Looks good. Approved As Is."
              /\ Cur.revision_attempts < max_revision_cycles_per_section
               THEN pc' = "reviser"
               ELSE pc' = "research_loop_controller"
      ]_vars

\* a section approved by its first review is accepted with revisions to spare
ApprovedWithRevisionsLeft ==
    /\ pc = "research_loop_controller"
    /\ JustRan("review", "approved")
    /\ Cur.revision_attempts = 0
    /\ max_revision_cycles_per_section = RevCapBound

\* C24: a research pass that starts with recursion_depth > 0 and follow-up
\* questions is given exactly those questions, and the section's
\* follow_up_questions is empty after the pass whatever the backend call did
\* (an exception included); a pass that starts with recursion_depth = 0 or
\* without follow-up questions is given the one default question built from
\* the section title, and leaves follow_up_questions as it is.
FollowUpsConsumedAtStart ==
    [][ (pc = "researcher" /\ pc' = "analyzer" /\ ~InvalidSection)
        => /\ research_task'.section_title = current_section_title
           /\ IF Cur.recursion_depth > 0 /\ Cur.follow_up_questions # <<>>
                  THEN /\ research_task'.research_questions =
                              Cur.follow_up_questions
                       /\ Cur'.follow_up_questions = <<>>
                  ELSE /\ research_task'.research_questions =
                              <<"Key information about "
                                  \o current_section_title
                                  \o " related to the topic">>
                       /\ Cur'.follow_up_questions = Cur.follow_up_questions
      ]_vars

\* a recursive research call raised an exception: the questions it was given
\* are gone from the section
RecursiveCallFailedQuestionsGone ==
    /\ pc = "analyzer"
    /\ JustRan("research", "raise")
    /\ Cur.recursion_depth = 1
    /\ research_task.research_questions = <<"question 1", "question 2">>
    /\ Cur.follow_up_questions = <<>>
    /\ error_message.kind = "research"

\* C25: when the writer runs for a valid section whose summary is None or
\* empty, it makes no backend call, sets draft_content to a non-empty
\* placeholder that tells of the skip, leaves error_message as it is, and the
\* reviewer runs next.
WriteSkippedWithoutSummary ==
    [][ ( /\ pc = "writer"
          /\ ~InvalidSection
          /\ Cur.summary \in {NONE, ""} )
        => /\ pc' = "reviewer"
           /\ Cur'.draft_content = SkippedDraft
           /\ Cur'.draft_content \notin {NONE, ""}
           /\ Last(trace'[current_section_title]) =
                  [stage |-> "write", reply |-> "none"]
           /\ UNCHANGED <<error_message, faults_left>>
      ]_vars

\* the reviewer is about to run on the placeholder written for a section whose
\* analysis returned an empty summary
PlaceholderDraftForEmptySummary ==
    /\ pc = "reviewer"
    /\ JustRan("write", "none")
    /\ Cur.summary = ""
    /\ Cur.draft_content = SkippedDraft
    /\ ~IsSet(error_message)

Dispatchable(i) ==
    /\ initial_outline[i] \in DOMAIN sections_data
    /\ Lower(initial_outline[i]) \notin
           {"introduction", "conclusion", "references"}
    /\ sections_data[initial_outline[i]].draft_content \in {NONE, ""}
    /\ sections_data[initial_outline[i]].recursion_depth = 0

\* C27: when the loop controller dispatches a section, it is the first one in
\* outline order whose title is not Introduction, Conclusion or References in
\* any letter case, whose draft_content is empty and whose recursion_depth is
\* 0; the dispatch makes it the current section, leaves it with no follow-up
\* questions and recursion_depth 0, changes no other section and adds exactly
\* 1 to main_loop_iterations.
LoopDispatchesFirstUndrafted ==
    [][ (pc = "research_loop_controller" /\ pc' = "researcher")
        => /\ \E i \in DOMAIN initial_outline :
                 /\ current_section_title' = initial_outline[i]
                 /\ Dispatchable(i)
                 /\ \A j \in 1..(i - 1) : ~Dispatchable(j)
           /\ Cur'.follow_up_questions = <<>>
           /\ Cur'.recursion_depth = 0
           /\ \A t \in DOMAIN sections_data :
                  t # current_section_title'
                      => sections_data'[t] = sections_data[t]
           /\ main_loop_iterations' = main_loop_iterations + 1
      ]_vars

\* the loop controller passed over the reserved title and the drafted first
\* section and dispatched the second content section
SecondSectionDispatchedInOrder ==
    /\ pc = "researcher"
    /\ initial_outline = <<"Introduction", "Background", "Methods",
                           "Conclusion", "References">>
    /\ current_section_title = "Methods"
    /\ main_loop_iterations = 2
    /\ trace["Methods"] = <<>>
    /\ sections_data["Background"].draft_content = "draft text"
    /\ sections_data["Background"].recursion_depth = 1
    /\ sections_data["Methods"].recursion_depth = 0

\* C28: in the loop controller the error test comes first: if error_message
\* is set and holds none of the tags "analysis_node", "review_node",
\* "revision_node", "planner_node", the error handler runs next, also when
\* main_loop_iterations has reached max_main_loop_iterations or no section is
\* left to dispatch; no section is dispatched, and current_section_title,
\* main_loop_iterations and the section records are unchanged.
LoopErrorCheckFirst ==
    [][ ( /\ pc = "research_loop_controller"
          /\ error_message.kind # "none"
          /\ \A tag \in {"analysis_node", "review_node", "revision_node",
                         "planner_node"} : ~Contains(error_message, tag) )
        => /\ pc' = "error_handler"
           /\ UNCHANGED <<current_section_title, main_loop_iterations,
                          sections_data>>
      ]_vars

\* the loop controller sent the run to the error handler although the ceiling
\* was reached and every content section had a draft
ErrorBeatsCeilingAndEmptyOutline ==
    /\ pc = "error_handler"
    /\ error_message.kind \in {"review", "revision"}
    /\ main_loop_iterations >= max_main_loop_iterations
    /\ AllContentDrafted
    /\ ~InvalidSection

\* C29: if current_section_title is None or is not a key of sections_data
\* when the decision after the analysis or the decision after the review is
\* taken, error_message is set after it (the review decision keeps a message
\* that was set already) and the error handler runs next.
InvalidSectionEscalates ==
    [][ /\ ( /\ pc = "decide_after_analysis_router"
             /\ (current_section_title = NONE
                   \/ current_section_title \notin DOMAIN sections_data) )
            => /\ error_message'.kind # "none"
               /\ pc' = "error_handler"
        /\ ( /\ pc = "decide_to_revise_or_continue"
             /\ (current_section_title = NONE
                   \/ current_section_title \notin DOMAIN sections_data) )
            => /\ error_message'.kind # "none"
               /\ error_message.kind # "none"
                      => error_message' = error_message
               /\ pc' = "error_handler"
      ]_vars

\* the review decision met a title that is no key of sections_data with a
\* message already set, kept the message and called the error handler
ReviewDecisionKeptMessage ==
    /\ pc = "error_handler"
    /\ current_section_title = "Methods"
    /\ "Methods" \notin DOMAIN sections_data
    /\ error_message = Err("review_invalid", "-")

\* the section of this title has been handed back to the loop controller: its
\* latest stage is a review, and if it is still the current section, the
\* decision after that review has been taken and was not for a revision
Accepted(t) ==
    /\ t \in DOMAIN sections_data
    /\ trace[t] # <<>>
    /\ Last(trace[t]).stage = "review"
    /\ t = current_section_title
           => pc \notin {"decide_to_revise_or_continue", "reviser",
                         "error_handler"}

\* C30: once a section has been handed back to the loop controller, no later
\* step changes its record (raw_data, summary, follow_up_questions,
\* recursion_depth, draft_content, review_feedback, revision_attempts): not
\* the loop controller's selection and reset, not the pipeline of a later
\* section, not the compiler.
AcceptedRecordFrozen ==
    [][ \A t \in Titles :
            Accepted(t) => /\ t \in DOMAIN sections_data'
                           /\ sections_data'[t] = sections_data[t]
                           /\ trace'[t] = trace[t]
      ]_vars

\* the run ended in the compiler after two sections were accepted, the first
\* of them before the whole pipeline of the second
TwoAcceptedThenCompiled ==
    /\ pc = "END"
    /\ final_report_md # <<>>
    /\ Accepted("Background")
    /\ Accepted("Methods")
    /\ Count(trace["Methods"], "research") = 2
    /\ Count(trace["Background"], "revise") = 1

\* the three titles the compiler fills in
Boilerplate == {"Introduction", "Conclusion", "References"}

\* the position of a title in a sequence of titles without repetition
PositionIn(seq, t) == CHOOSE i \in DOMAIN seq : seq[i] = t

\* C31: the compiler never overwrites a non-empty draft_content: it gives
\* "Introduction", "Conclusion" and "References" a draft only where the
\* section is absent or its draft is empty, changing no other field, and
\* leaves every other record as it is; and it orders the sections by their
\* position in the outline, those that are not in the outline after all that
\* are.
CompilerBackfillsOnly ==
    [][ pc = "compiler"
        => /\ DOMAIN sections_data' = DOMAIN sections_data \cup Boilerplate
           /\ \A t \in DOMAIN sections_data :
                  IF t \in Boilerplate
                        /\ sections_data[t].draft_content \in {NONE, ""}
                      THEN /\ sections_data'[t].draft_content \notin {NONE, ""}
                           /\ [sections_data'[t] EXCEPT !.draft_content = NONE]
                                = [sections_data[t] EXCEPT !.draft_content = NONE]
                      ELSE sections_data'[t] = sections_data[t]
           /\ \A t \in Boilerplate \ DOMAIN sections_data :
                  /\ sections_data'[t].draft_content \notin {NONE, ""}
                  /\ [sections_data'[t] EXCEPT !.draft_content = NONE]
                       = SectionData(t)
           /\ Range(final_report_md') = DOMAIN sections_data'
           /\ Len(final_report_md') = Cardinality(DOMAIN sections_data')
           /\ \A i, j \in DOMAIN final_report_md' :
                  LET a == final_report_md'[i]
                      b == final_report_md'[j]
                  IN  /\ (a \in Range(initial_outline)
                            /\ b \notin Range(initial_outline)) => i < j
                      /\ ( /\ a \in Range(initial_outline)
                           /\ b \in Range(initial_outline)
                           /\ PositionIn(initial_outline, a)
                                  < PositionIn(initial_outline, b) ) => i < j
      ]_vars

\* the report of an outline that lists "introduction": the drafted section
\* kept its draft and the added "Introduction" comes after the outline's titles
UnlistedIntroductionPlacedLast ==
    /\ pc = "END"
    /\ final_report_md = <<"introduction", "Methods", "Conclusion",
                           "References", "Introduction">>
    /\ sections_data["Methods"].draft_content = "draft text"
    /\ sections_data["Introduction"].draft_content = "placeholder introduction"
    /\ sections_data["introduction"].draft_content = NONE

\* a research pass of a valid current section has just decoded a list or dict
ResearchDecoded ==
    /\ pc = "researcher"
    /\ pc' = "analyzer"
    /\ ~InvalidSection
    /\ research_output'.t \in {"json", "decoded"}

\* no step removes an entry of the current section's raw_data, a collected
\* URL or a performed query
ResearchDataGrows ==
    /\ pc = "researcher" /\ ~InvalidSection
           => IsPrefix(Cur.raw_data, Cur'.raw_data)
    /\ all_collected_urls \subseteq all_collected_urls'
    /\ all_search_queries \subseteq all_search_queries'

\* C32, as stated: a research pass appends every returned source to the
\* current section's raw_data, also when its URL is in all_collected_urls
\* already, keeping the earlier entries in place; and no step removes an
\* element of all_collected_urls or all_search_queries.
EverySourceAppended ==
    [][ /\ ResearchDataGrows
        /\ ResearchDecoded
            => Len(Cur'.raw_data) =
                   Len(Cur.raw_data) + Len(FoundSources(research_output'))
      ]_vars

\* C32, amended: a research pass appends, in the order returned, every
\* returned source that is a string or a mapping with a non-empty URL, also
\* when that URL is in all_collected_urls already; a mapping without a URL
\* adds nothing; the earlier entries of raw_data stay in place; and no step
\* removes an element of all_collected_urls or all_search_queries.
EverySourceWithUrlAppended ==
    [][ /\ ResearchDataGrows
        /\ ResearchDecoded
            => LET found == FoundSources(research_output')
                   kept == SelectSeq(found,
                               LAMBDA s : s.shape = "str" \/ s.href # "")
               IN  /\ Len(Cur'.raw_data) = Len(Cur.raw_data) + Len(kept)
                   /\ \A i \in DOMAIN kept :
                          Cur'.raw_data[Len(Cur.raw_data) + i] =
                              IF kept[i].shape = "str"
                                  THEN kept[i].snippet
                                  ELSE "Title: " \o kept[i].title
                                        \o "\nURL: " \o kept[i].href
                                        \o "\nSnippet: " \o kept[i].snippet
                   /\ \A i \in DOMAIN kept :
                          kept[i].shape = "dict"
                              => kept[i].href \in all_collected_urls'
      ]_vars

\* a recursive pass returned a source whose URL had been collected by the
\* first pass: it is in raw_data twice
KnownUrlAppendedAgain ==
    /\ pc = "analyzer"
    /\ JustRan("research", "decoded")
    /\ FoundSources(research_output) = <<SourceA, NoteSource>>
    /\ Cur.raw_data = <<SourceText(SourceA), SourceText(SourceA), "a note">>
    /\ all_collected_urls = {"https://a.org"}

\* C33: when the research backend call raises, the node returns: error_message
\* is the research node's message about the exception, the current section's
\* raw_data, all_collected_urls and all_search_queries are as they were before
\* the pass, and the analyzer runs next for the same section.
ResearchFailureRecorded ==
    [][ ( /\ pc = "researcher"
          /\ ~InvalidSection
          /\ research_output'.t = "raise" )
        => /\ pc' = "analyzer"
           /\ error_message' = [kind |-> "research", txt |-> research_output'.txt]
           /\ Cur'.raw_data = Cur.raw_data
           /\ UNCHANGED <<all_collected_urls, all_search_queries,
                          current_section_title>>
      ]_vars

\* a recursive research call raised: the findings, URLs and queries of the
\* first pass are all there and the analyzer is due
FailedPassKeptFindings ==
    /\ pc = "analyzer"
    /\ JustRan("research", "raise")
    /\ error_message = [kind |-> "research", txt |-> "timeout"]
    /\ Cur.raw_data = <<SourceText(SourceA)>>
    /\ all_collected_urls = {"https://a.org"}
    /\ all_search_queries = {"query a"}

\* the reviser, run for a valid current section, has just made a backend call
\* that did this
RevisionReturned(reply) ==
    /\ pc = "reviser"
    /\ pc' = "reviewer"
    /\ ~InvalidSection
    /\ trace'[current_section_title] =
           Append(trace[current_section_title],
                  [stage |-> "revise", reply |-> reply])

\* C34: a revision whose backend call raises or returns an empty or non-text
\* result leaves the section's draft_content and revision_attempts as they
\* were before the step; a revision that returns a non-empty text replaces
\* draft_content by it and adds exactly 1 to revision_attempts.
FailedRevisionChangesNothing ==
    [][ /\ \A reply \in {"raise", "blank"} :
              RevisionReturned(reply)
                  => /\ Cur'.draft_content = Cur.draft_content
                     /\ Cur'.revision_attempts = Cur.revision_attempts
        /\ RevisionReturned("draft")
              => /\ Cur'.draft_content = "revised text"
                 /\ Cur'.revision_attempts = Cur.revision_attempts + 1
        /\ pc # "reviser"
              => \A t \in DOMAIN sections_data :
                     t \in DOMAIN sections_data'
                         => sections_data'[t].revision_attempts =
                                sections_data[t].revision_attempts
      ]_vars

\* a revision call raised: the first draft is still the section's draft and
\* no revision is counted
FailedRevisionKeptDraft ==
    /\ pc = "reviewer"
    /\ JustRan("revise", "raise")
    /\ Cur.draft_content = "draft text"
    /\ Cur.revision_attempts = 0
    /\ error_message.kind = "revision"

\* C35: error_message is sticky: a step taken with error_message set leaves
\* it set (with the same or another message).
ErrorMessageSticky ==
    [][ error_message.kind # "none" => error_message'.kind # "none" ]_vars

\* the message of a failed research call is still there after the analysis,
\* the writing and the review of the section
ErrorSurvivedLaterStages ==
    /\ pc = "decide_to_revise_or_continue"
    /\ ~InvalidSection
    /\ error_message.kind = "research"
    /\ Cur.summary = "insights"
    /\ Cur.draft_content = "draft text"
    /\ Cur.review_feedback = "Looks good. Approved As Is."

\* C36: once the writer has run for a section, the section's draft_content
\* is non-empty, whichever path the writer took (skip for a missing summary,
\* draft, empty result, exception); hence the reviewer always runs for a valid
\* current section with a non-empty draft_content and never skips its call for
\* a missing draft, and a section handed back to the loop controller has a
\* non-empty draft_content.
DraftNonEmptyAfterWrite ==
    /\ \A t \in Titles :
           /\ Count(trace[t], "write") >= 1
                  => /\ t \in DOMAIN sections_data
                     /\ sections_data[t].draft_content \notin {NONE, ""}
           /\ \A i \in DOMAIN trace[t] :
                  trace[t][i] # [stage |-> "review", reply |-> "none"]
    /\ pc \in {"reviewer", "decide_to_revise_or_continue", "reviser",
               "research_loop_controller"}
           => /\ ~InvalidSection
              /\ Count(trace[current_section_title], "write") = 1
              /\ Cur.draft_content \notin {NONE, ""}

\* the reviewer is about to run on the draft that records the exception of
\* the writing call
ReviewOfFailedDraftDue ==
    /\ pc = "reviewer"
    /\ JustRan("write", "raise")
    /\ Cur.draft_content = "Error during draft generation: timeout"

\* the decision after a review whose backend call returned an empty or blank
\* string is due, with revisions to spare
EmptyReviewBelowCap ==
    /\ pc = "decide_to_revise_or_continue"
    /\ JustRan("review", "blank")
    /\ Cur.revision_attempts < max_revision_cycles_per_section

\* what the reviewer records when its backend call returns an empty or blank
\* string: a non-empty feedback without the approval phrase
EmptyReviewRecorded ==
    (pc = "reviewer" /\ pc' = "decide_to_revise_or_continue"
        /\ JustRan("review", "blank")')
    => /\ Cur'.review_feedback =
              "Reviewer provided no actionable feedback or an empty response."
       /\ Cur'.review_feedback \notin {NONE, "", "Looks good. Approved As Is."}
       /\ UNCHANGED error_message

PlannedNow ==
    /\ pc = "planner" /\ pc' = "planner_routes"
    /\ error_message' = NoError

\* C38: after a successful planning step the outline is non-empty, holds no
\* title twice, holds a title equal, letter case aside, to each of
\* Introduction, Conclusion and References, and sections_data holds exactly one
\* fresh record per outline title; no later step changes the outline.
OutlineWellFormedAndFixed ==
    [][ /\ PlannedNow =>
            /\ initial_outline' # <<>>
            /\ \A i, j \in 1..Len(initial_outline') :
                   initial_outline'[i] = initial_outline'[j] => i = j
            /\ \A lowered \in {"introduction", "conclusion", "references"} :
                   \E i \in 1..Len(initial_outline') :
                       Lower(initial_outline'[i]) = lowered
            /\ DOMAIN sections_data' = Range(initial_outline')
            /\ \A t \in DOMAIN sections_data' :
                   /\ sections_data'[t].title = t
                   /\ sections_data'[t].raw_data = <<>>
                   /\ sections_data'[t].summary = NONE
                   /\ sections_data'[t].draft_content = NONE
                   /\ sections_data'[t].recursion_depth = 0
                   /\ sections_data'[t].revision_attempts = 0
        /\ initial_outline # <<>> => UNCHANGED initial_outline
      ]_vars

\* a run has ended with a report over an outline to which the parser added
\* Introduction in front and References behind
ReportOverCompletedOutline ==
    /\ pc = "END"
    /\ final_report_md # <<>>
    /\ initial_outline = <<"Introduction", "Conclusion", "Methods", "References">>

\* a Research, Analyze, Write, Review or Revise step is due
StageDue == pc \in {"researcher", "analyzer", "writer", "reviewer", "reviser"}

\* C39: a Research, Analyze, Write, Review or Revise step leaves the record of
\* every section other than current_section_title as it is, and
\* current_section_title changes only in the dispatch after planning and in the
\* loop controller.
OneSectionAtATime ==
    [][ /\ StageDue =>
            /\ DOMAIN sections_data' = DOMAIN sections_data
            /\ \A t \in DOMAIN sections_data :
                   t # current_section_title
                       => sections_data'[t] = sections_data[t]
        /\ current_section_title' # current_section_title
               => pc \in {"planner_routes", "research_loop_controller"}
      ]_vars

\* the second content section has been written while the first one holds its
\* draft
SecondSectionWritten ==
    /\ pc = "reviewer"
    /\ ~InvalidSection
    /\ Truthy(Cur.draft_content)
    /\ \E i, j \in DOMAIN initial_outline :
           /\ i < j
           /\ current_section_title = initial_outline[j]
           /\ IsContent(initial_outline[i])
           /\ Truthy(sections_data[initial_outline[i]].draft_content)
           /\ sections_data[initial_outline[i]].summary # NONE

====
